---------------------------- MODULE Spec2Model ----------------------------
(***************************************************************************)
(* A model of the pelorus Waterline -> GraphQL adapter (src/adapter.js).   *)
(*                                                                         *)
(* The state is the module-level `internals.defaults` object (the merged   *)
(* configuration and the two registries `types` and `modelQueries`), the   *)
(* GraphQLObjectType instances created so far, and what every              *)
(* getGraphQlSchema call returned or threw.  The operations are            *)
(* getGraphQlSchema, the relation resolvers a returned schema carries, and *)
(* the two pure functions convertToGraphQlType and GraphQLJson.parseLiteral*)
(***************************************************************************)
EXTENDS Integers, Sequences, FiniteSets, TLC

(***************************************************************************)
(* Bounds of the model.                                                    *)
(***************************************************************************)
\* how many getGraphQlSchema calls one behaviour makes
MaxCalls == 2
\* nesting depth of the literal trees handed to GraphQLJson.parseLiteral
MaxDepth == 2
\* record identifiers are 1..MaxId
MaxId == 2

(***************************************************************************)
(* JavaScript strings.  A name is a TLA+ string; the two case conversions  *)
(* the adapter applies are tables over the names of the model.             *)
(***************************************************************************)
\* String.prototype.toLowerCase
toLowerCase(s) ==
    CASE s = "User"     -> "user"
      [] s = "Article"  -> "article"
      [] s = "Comment"  -> "comment"
      [] s = "Page"     -> "page"
      [] s = "Note"     -> "note"
      [] s = "authorId" -> "authorid"
      [] s = "String"   -> "string"
      [] s = "INTEGER"  -> "integer"
      [] s = "Boolean"  -> "boolean"
      [] s = "JSON"     -> "json"
      [] OTHER          -> s

\* _.capitalize on the (lower-case) collection identities and on its own output
capitalize(s) ==
    CASE s = "user"    -> "User"
      [] s = "article" -> "Article"
      [] s = "comment" -> "Comment"
      [] s = "page"    -> "Page"
      [] s = "note"    -> "Note"
      [] OTHER         -> s

(***************************************************************************)
(* JavaScript values: undefined, null, numbers and plain objects.          *)
(***************************************************************************)
undefined == [t |-> "undefined"]
null == [t |-> "null"]
Num(n) == [t |-> "number", v |-> n]
Obj(r) == [t |-> "object", v |-> r]
\* the outcome of an expression that throws
TypeError == [t |-> "TypeError"]

\* !value
Falsy(val) == \/ val.t \in {"undefined", "null"}
              \/ (val.t = "number" /\ val.v = 0)

\* value[key]: throws on undefined and null, undefined on a number
Get(val, key) ==
    CASE val.t \in {"undefined", "null"} -> TypeError
      [] val.t = "object" -> IF key \in DOMAIN val.v THEN val.v[key] ELSE undefined
      [] OTHER -> undefined

\* object[key] = value on a plain record
Put(r, key, val) == [k \in DOMAIN r \cup {key} |-> IF k = key THEN val ELSE r[k]]

Str(s) == [t |-> "string", v |-> s]

(***************************************************************************)
(* GraphQL type descriptors.  A GraphQLObjectType instance is identified   *)
(* by its name and by the getGraphQlSchema call that created it: two       *)
(* instances of the same name are two objects.                             *)
(***************************************************************************)
Scalar(n) == [t |-> "scalar", name |-> n]
NonNull(ty) == [t |-> "nonnull", of |-> ty]
ObjectType(tid) == [t |-> "object", id |-> tid]
ListOf(ty) == [t |-> "list", of |-> ty]

GraphQLInt == Scalar("Int")
GraphQLBoolean == Scalar("Boolean")
GraphQLFloat == Scalar("Float")
GraphQLString == Scalar("String")
\* internals.GraphQLJson, the raw-filter scalar
GraphQLJson == Scalar("JSON")

(***************************************************************************)
(* convertToGraphQlType(type): `type` is a string value or undefined;      *)
(* type.toLowerCase() throws a TypeError on undefined.                     *)
(***************************************************************************)
convertToGraphQlType(type) ==
    IF type.t # "string" THEN TypeError
    ELSE LET tag == toLowerCase(type.v)
         IN  CASE tag = "integer" -> GraphQLInt
               [] tag = "boolean" -> GraphQLBoolean
               [] tag = "float"   -> GraphQLFloat
               [] tag = "json"    -> GraphQLJson
               [] OTHER           -> GraphQLString

\* rules.type: undefined when the attribute declares no type
TypeOf(rules) == IF "type" \in DOMAIN rules THEN Str(rules.type) ELSE undefined

(***************************************************************************)
(* The Waterline collections of the model (collection.adapter.identity,    *)
(* collection.primaryKey, collection._attributes in declaration order).    *)
(***************************************************************************)
Attr(n, r) == [name |-> n, rules |-> r]

user ==
    [identity |-> "user", primaryKey |-> "id", attributes |-> <<
        Attr("id", [type |-> "integer", primaryKey |-> TRUE]),
        Attr("firstName", [type |-> "string"]),
        Attr("articles", [collection |-> "article", via |-> "authorId"]) >>]

article ==
    [identity |-> "article", primaryKey |-> "id", attributes |-> <<
        Attr("id", [type |-> "integer", primaryKey |-> TRUE]),
        Attr("title", [type |-> "String", required |-> TRUE]),
        Attr("authorId", [model |-> "user", type |-> "integer"]) >>]

comment ==
    [identity |-> "comment", primaryKey |-> "cid", attributes |-> <<
        Attr("cid", [type |-> "INTEGER", primaryKey |-> TRUE]),
        Attr("text", [type |-> "text"]),
        Attr("article", [model |-> "article", type |-> "integer"]) >>]

page ==
    [identity |-> "page", primaryKey |-> "id", attributes |-> <<
        Attr("id", [type |-> "integer", primaryKey |-> TRUE]),
        Attr("slug", [type |-> "string", unique |-> TRUE]),
        Attr("where", [type |-> "string"]),
        Attr("limit", [type |-> "integer", unique |-> TRUE]),
        Attr("sort", [type |-> "JSON"]),
        Attr("rank", [type |-> "float", required |-> TRUE]),
        Attr("draft", [type |-> "Boolean", unique |-> FALSE]) >>]

\* a belongsTo attribute that declares `model` only
note ==
    [identity |-> "note", primaryKey |-> "id", attributes |-> <<
        Attr("id", [type |-> "integer", primaryKey |-> TRUE]),
        Attr("owner", [model |-> "user"]) >>]

(***************************************************************************)
(* The configurations handed to getGraphQlSchema.  `collections` is a      *)
(* mapping keyed by identity ("object") or a sequence ("array"); a key the *)
(* caller leaves out is not in the record's domain.                        *)
(***************************************************************************)
Collections(k, cs) == [kind |-> k, items |-> cs]

Configs ==
    { [collections |-> Collections("object", <<user, article, comment>>)],
      [collections |-> Collections("object", <<article, user>>),
       exposeQueryLanguage |-> TRUE],
      [collections |-> Collections("array", <<user, article>>),
       exposeQueryLanguage |-> FALSE],
      [collections |-> Collections("object", <<page>>)],
      [collections |-> Collections("object", <<page>>), exposeQueryLanguage |-> TRUE],
      [collections |-> Collections("object", <<comment>>)],
      [collections |-> Collections("object", <<page, note>>)],
      [collections |-> Collections("object", <<>>)],
      [collections |-> Collections("array", <<>>)],
      [exposeQueryLanguage |-> TRUE] }

\* collections[key]: a sequence has no property named after an identity
Lookup(collections, key) ==
    LET hit == { i \in DOMAIN collections.items : collections.items[i].identity = key }
    IN  IF collections.kind = "object" /\ hit # {}
        THEN Obj(collections.items[CHOOSE i \in hit : TRUE])
        ELSE undefined

(***************************************************************************)
(* The state.                                                              *)
(*   defaults  internals.defaults: collections, exposeQueryLanguage and    *)
(*             the registries types (capitalized identity -> object type)  *)
(*             and modelQueries (the query fields, in key order)           *)
(*   objects   the GraphQLObjectType instances built so far: the           *)
(*             collection each closes over and its field map once the      *)
(*             `fields` thunk has been evaluated (<<>> before that)        *)
(*   calls     every getGraphQlSchema call so far: its config and what it  *)
(*             returned or threw                                           *)
(*   resolved  the last relation resolver run and the store call it made   *)
(*   pure      the last application of a pure function (SpecPure)          *)
(***************************************************************************)
VARIABLES defaults, objects, calls, resolved, pure

vars == <<defaults, objects, calls, resolved, pure>>

\* object[key] on a registry kept as a TLA+ function
Has(r, key) == key \in DOMAIN r

(***************************************************************************)
(* internals.buildType: registers a new object type under the capitalized  *)
(* identity.  The `fields` thunk is not evaluated here.  `st` is the state  *)
(* of one getGraphQlSchema call: internals.defaults, the type objects, the *)
(* number of the call, what was thrown, and `log`, the calls of buildType  *)
(* and buildQueryFields made so far in the order they were made.           *)
(***************************************************************************)
buildType(st, collection) ==
    LET collectionIdentity == capitalize(collection.identity)
        tid == <<capitalize(collectionIdentity), st.gen>>
    IN  [st EXCEPT !.types = Put(st.types, collectionIdentity, tid),
                   !.objects = Put(st.objects, tid,
                                   [collection |-> collection, fields |-> <<>>]),
                   !.log = Append(st.log, [op |-> "buildType",
                                           identity |-> collection.identity])]

(***************************************************************************)
(* internals.buildQueryFields, the argument loop (lines 180-201): `acc`    *)
(* holds findOneArgs, findManyArgs and whether convertToGraphQlType threw. *)
(***************************************************************************)
QueryArg(acc, attr) ==
    LET key == attr.name
        rules == attr.rules
        ty == convertToGraphQlType(TypeOf(rules))
    IN  IF acc.threw THEN acc
        ELSE IF Has(acc.findManyArgs, key) THEN acc
        ELSE IF Has(rules, "collection") THEN acc
        ELSE IF ty = TypeError THEN [acc EXCEPT !.threw = TRUE]
        ELSE IF \/ (Has(rules, "primaryKey") /\ rules.primaryKey)
                \/ (Has(rules, "unique") /\ rules.unique)
        THEN [acc EXCEPT !.findOneArgs = Put(acc.findOneArgs, key, ty)]
        ELSE [acc EXCEPT !.findManyArgs = Put(acc.findManyArgs, key, ty)]

RECURSIVE QueryArgs(_, _)
QueryArgs(acc, attrs) ==
    IF attrs = <<>> THEN acc
    ELSE QueryArgs(QueryArg(acc, Head(attrs)), Tail(attrs))

\* the built-in arguments of the plural field (lines 157-178)
DefaultManyArgs(exposeQueryLanguage) ==
    LET base == [limit |-> GraphQLInt, skip |-> GraphQLInt, sort |-> GraphQLString]
    IN  IF exposeQueryLanguage THEN Put(base, "where", GraphQLJson) ELSE base

\* _.assign(modelQueries, {name: field}): an existing key keeps its place
Assign(queries, field) ==
    IF \E i \in DOMAIN queries : queries[i].name = field.name
    THEN [i \in DOMAIN queries |->
            IF queries[i].name = field.name THEN field ELSE queries[i]]
    ELSE Append(queries, field)

\* internals.defaults.types[collectionIdentity] (lines 204 and 210)
DeclaredType(types, collectionIdentity) ==
    IF Has(types, collectionIdentity) THEN ObjectType(types[collectionIdentity])
    ELSE undefined

buildQueryFields(st, collection) ==
    LET collectionIdentity == capitalize(collection.identity)
        type == DeclaredType(st.types, collectionIdentity)
        entered == Append(st.log, [op |-> "buildQueryFields",
                                   identity |-> collection.identity,
                                   types |-> DOMAIN st.types,
                                   type |-> type])
        args == QueryArgs([findOneArgs |-> <<>>,
                           findManyArgs |-> DefaultManyArgs(st.exposeQueryLanguage),
                           threw |-> FALSE],
                          collection.attributes)
        one == [name |-> toLowerCase(collectionIdentity),
                type |-> type,
                args |-> args.findOneArgs,
                resolve |-> [op |-> "findOne", collection |-> collection]]
        many == [name |-> toLowerCase(collectionIdentity) \o "s",
                 type |-> ListOf(type),
                 args |-> args.findManyArgs,
                 resolve |-> [op |-> "find", collection |-> collection]]
    IN  IF st.threw # "none" THEN st
        ELSE IF args.threw THEN [st EXCEPT !.threw = "TypeError", !.log = entered]
        ELSE [st EXCEPT !.modelQueries = Assign(Assign(st.modelQueries, one), many),
                        !.log = entered]

RECURSIVE ForEach(_, _, _)
\* _.forEach(collections, f) threading the state through f; f is 1 or 2
ForEach(st, items, pass) ==
    IF items = <<>> THEN st
    ELSE ForEach(IF pass = 1 THEN buildType(st, Head(items))
                 ELSE buildQueryFields(st, Head(items)),
                 Tail(items), pass)

\* a getQueries whose two loops are exchanged: the query fields first
QueryFieldsFirst(st) ==
    ForEach(ForEach(st, st.collections.items, 2), st.collections.items, 1)

(***************************************************************************)
(* internals.getQueries: every buildType, then every buildQueryFields.     *)
(***************************************************************************)
getQueries(st) ==
    ForEach(ForEach(st, st.collections.items, 1), st.collections.items, 2)

(***************************************************************************)
(* The `fields` thunk of an object type (lines 86-143), evaluated against  *)
(* the type registry as it is when the thunk runs.                         *)
(***************************************************************************)
FieldType(types, rules) ==
    IF Has(rules, "model")
    THEN IF Has(types, capitalize(rules.model))
         THEN ObjectType(types[capitalize(rules.model)])
         ELSE undefined
    ELSE IF Has(rules, "collection")
    THEN IF Has(types, capitalize(rules.collection))
         THEN ListOf(ObjectType(types[capitalize(rules.collection)]))
         ELSE ListOf(undefined)
    ELSE LET ty == convertToGraphQlType(TypeOf(rules))
         IN  IF ty = TypeError THEN TypeError
             ELSE IF Has(rules, "required") /\ rules.required THEN NonNull(ty)
             ELSE ty

Fields(types, collection) ==
    [i \in DOMAIN collection.attributes |->
        [name |-> collection.attributes[i].name,
         type |-> FieldType(types, collection.attributes[i].rules)]]

(***************************************************************************)
(* new GraphQl.GraphQLSchema({query}) (lines 50-52).  graphql-js walks the *)
(* types reachable from the root fields, depth first in field order,       *)
(* calling getFields() on each object type it has not seen: the thunk      *)
(* runs once and its result is kept by the type object.  The walk throws   *)
(* when a type has no field, when a field has no type (undefined, or a     *)
(* list of undefined), when the thunk throws, and when two different type  *)
(* objects carry one name.  `w` is the walk: the types seen by name, the   *)
(* type objects, and what was thrown.                                      *)
(***************************************************************************)
\* the object type a field type names, or <<>> for a scalar
NamedObject(ty) ==
    CASE ty.t = "object" -> ty.id
      [] ty.t \in {"list", "nonnull"} /\ ty.of.t = "object" -> ty.of.id
      [] OTHER -> <<>>

\* type.getFields(): the kept field map, or the thunk's result checked
GetFields(w, tid) ==
    LET kept == w.objects[tid].fields
        made == Fields(w.types, w.objects[tid].collection)
        bad(f) == \/ f.type.t = "undefined"
                  \/ (f.type.t = "list" /\ f.type.of.t = "undefined")
    IN  IF kept # <<>> THEN [threw |-> "none", fields |-> kept]
        ELSE IF \E i \in DOMAIN made : made[i].type = TypeError
        THEN [threw |-> "TypeError", fields |-> <<>>]
        ELSE IF made = <<>> \/ \E i \in DOMAIN made : bad(made[i])
        THEN [threw |-> "Error", fields |-> <<>>]
        ELSE [threw |-> "none", fields |-> made]

RECURSIVE Visit(_, _)
RECURSIVE VisitAll(_, _)
Visit(w, tid) ==
    IF w.threw # "none" \/ tid = <<>> THEN w
    ELSE IF Has(w.seen, tid[1])
    THEN IF w.seen[tid[1]] = tid THEN w ELSE [w EXCEPT !.threw = "Error"]
    ELSE LET got == GetFields(w, tid)
             w1 == [w EXCEPT !.seen = Put(w.seen, tid[1], tid)]
         IN  IF got.threw # "none" THEN [w1 EXCEPT !.threw = got.threw]
             ELSE VisitAll([w1 EXCEPT !.objects[tid].fields = got.fields],
                           [i \in DOMAIN got.fields |-> NamedObject(got.fields[i].type)])

VisitAll(w, tids) ==
    IF tids = <<>> THEN w
    ELSE VisitAll(Visit(w, Head(tids)), Tail(tids))

GraphQLSchema(st) ==
    LET w == VisitAll([seen |-> <<>>, types |-> st.types,
                       objects |-> st.objects, threw |-> "none"],
                      [i \in DOMAIN st.modelQueries |->
                          NamedObject(st.modelQueries[i].type)])
        bad(f) == \/ f.type.t = "undefined"
                  \/ (f.type.t = "list" /\ f.type.of.t = "undefined")
    IN  IF st.modelQueries = <<>> THEN [st EXCEPT !.threw = "Error"]
        ELSE IF \E i \in DOMAIN st.modelQueries : bad(st.modelQueries[i])
        THEN [st EXCEPT !.threw = "Error"]
        ELSE [st EXCEPT !.objects = w.objects, !.threw = w.threw]

(***************************************************************************)
(* Joi.assert(config, internals.configSchema): collections is required and *)
(* is an object or an array (an empty one passes); a key the schema does   *)
(* not name is not allowed.                                                *)
(***************************************************************************)
JoiValid(config) ==
    /\ Has(config, "collections")
    /\ DOMAIN config \subseteq {"collections", "exposeQueryLanguage"}

\* _.defaults(config, internals.defaults): config's own keys win, the
\* others (the two registries always) are taken from internals.defaults
Defaults(config, old) ==
    [collections |-> config.collections,
     exposeQueryLanguage |-> IF Has(config, "exposeQueryLanguage")
                             THEN config.exposeQueryLanguage
                             ELSE old.exposeQueryLanguage,
     modelQueries |-> old.modelQueries,
     types |-> old.types]

\* what a call hands back: the schema's root fields, or what it threw
Outcome(st) ==
    [threw |-> st.threw,
     schema |-> IF st.threw = "none" THEN st.modelQueries ELSE <<>>,
     exposeQueryLanguage |-> st.exposeQueryLanguage,
     log |-> st.log]

(***************************************************************************)
(* module.exports.getGraphQlSchema(config)                                 *)
(***************************************************************************)
Build(config, old, objs, n) ==
    LET merged == Defaults(config, old)
        st0 == [collections |-> merged.collections,
                exposeQueryLanguage |-> merged.exposeQueryLanguage,
                modelQueries |-> merged.modelQueries,
                types |-> merged.types,
                objects |-> objs, gen |-> n, threw |-> "none", log |-> <<>>]
        st1 == getQueries(st0)
    IN  IF st1.threw # "none" THEN st1 ELSE GraphQLSchema(st1)

getGraphQlSchema(config) ==
    /\ Len(calls) < MaxCalls
    /\ IF ~JoiValid(config)
       THEN /\ calls' = Append(calls, [config |-> config,
                                       result |-> [threw |-> "ValidationError",
                                                   schema |-> <<>>,
                                                   exposeQueryLanguage |->
                                                       defaults.exposeQueryLanguage,
                                                   log |-> <<>>]])
            /\ UNCHANGED <<defaults, objects>>
       ELSE LET st == Build(config, defaults, objects, Len(calls) + 1)
            IN  /\ defaults' = [collections |-> st.collections,
                                exposeQueryLanguage |-> st.exposeQueryLanguage,
                                modelQueries |-> st.modelQueries,
                                types |-> st.types]
                /\ objects' = st.objects
                /\ calls' = Append(calls, [config |-> config, result |-> Outcome(st)])
    /\ resolved' = [t |-> "none"]
    /\ UNCHANGED pure

(***************************************************************************)
(* The relation resolvers of a returned schema.  GraphQL calls             *)
(* resolve(object, criteria) with the parent record and the field's        *)
(* arguments; a relation field declares none, so criteria is {}.           *)
(***************************************************************************)
Ids == 1 .. MaxId

\* the parent record of collection c, holding in attribute `key` a
\* reference to record `foreign` of a collection whose primary key is pk:
\* as a nested record, flat under the name pk only, as the bare scalar
\* under `key`, as the scalar under both names, or as null
Parent(shape, c, key, pk, own, foreign) ==
    LET base == (c.primaryKey :> Num(own))
    IN  CASE shape = "nested" -> Obj(Put(base, key, Obj((pk :> Num(foreign)))))
          [] shape = "flat"   -> Obj(Put(base, pk, Num(foreign)))
          [] shape = "bare"   -> Obj(Put(base, key, Num(foreign)))
          [] shape = "copied" -> Obj(Put(Put(base, key, Num(foreign)),
                                         pk, Num(foreign)))
          [] shape = "null"   -> Obj(Put(base, key, null))
          [] OTHER            -> Obj(base)

Shapes == {"nested", "flat", "bare", "copied", "null"}

\* the store call a query field's resolver makes (lines 206 and 212)
StoreCall(field, criteria) ==
    [t |-> "call", op |-> field.resolve.op,
     collection |-> field.resolve.collection.identity, criteria |-> criteria]

\* internals.defaults.modelQueries[name], undefined when not registered
Query(queries, name) ==
    LET hit == { i \in DOMAIN queries : queries[i].name = name }
    IN  IF hit = {} THEN undefined ELSE Obj(queries[CHOOSE i \in hit : TRUE])

\* the resolver of a `model` attribute (lines 97-116)
ModelResolver(d, key, rules, object, criteria) ==
    LET target == Lookup(d.collections, rules.model)
        pk == target.v.primaryKey
        nested == Get(Get(object, key), pk)
        flat == Get(object, pk)
        identifier == IF ~Falsy(nested) THEN nested
                      ELSE IF ~Falsy(flat) THEN flat
                      ELSE Get(object, key)
        query == Query(d.modelQueries, toLowerCase(rules.model))
    IN  IF target = undefined \/ Get(object, key).t \in {"undefined", "null"}
        THEN TypeError
        ELSE IF query = undefined THEN TypeError
        ELSE StoreCall(query.v, Put(criteria, pk, identifier))

\* the resolver of a `collection` attribute (lines 124-132)
CollectionResolver(d, collection, rules, object, criteria) ==
    LET filter == Put(criteria, toLowerCase(rules.via),
                      Get(object, collection.primaryKey))
        query == Query(d.modelQueries, toLowerCase(rules.collection) \o "s")
    IN  IF query = undefined THEN TypeError
        ELSE StoreCall(query.v, [where |-> Obj(filter)])

\* the type objects whose resolvers a caller holds: those of the root
\* fields of a schema some call returned
Resolvable ==
    { tid \in DOMAIN objects :
        \E i \in DOMAIN calls :
            /\ calls[i].result.threw = "none"
            /\ \E q \in DOMAIN calls[i].result.schema :
                   calls[i].result.schema[q].type = ObjectType(tid) }

\* the collection whose type relation field number a of tid was wired to
Referenced(tid, a) ==
    objects[NamedObject(objects[tid].fields[a].type)].collection

(***************************************************************************)
(* A relation resolver runs: resolve(object, {}) of field number a of the  *)
(* object type tid.  It reads internals.defaults as it is at that moment.  *)
(* `resolved` holds the run until the next getGraphQlSchema call; one run  *)
(* is observed at a time (a run changes nothing else).                     *)
(***************************************************************************)
Run(tid, a, shape, own, foreign, object, outcome) ==
    [t |-> "resolved", type |-> tid, attr |-> a,
     key |-> objects[tid].collection.attributes[a].name,
     rules |-> objects[tid].collection.attributes[a].rules,
     shape |-> shape, own |-> own, foreign |-> foreign,
     object |-> object, outcome |-> outcome]

resolveModel(tid, a, shape, foreign) ==
    LET collection == objects[tid].collection
        key == collection.attributes[a].name
        rules == collection.attributes[a].rules
        object == Parent(shape, collection, key, Referenced(tid, a).primaryKey,
                         1, foreign)
    IN  /\ resolved.t = "none"
        /\ tid \in Resolvable
        /\ Has(rules, "model")
        /\ shape \in {"flat", "copied"} =>
               Referenced(tid, a).primaryKey # collection.primaryKey
        /\ resolved' = Run(tid, a, shape, 1, foreign, object,
                           ModelResolver(defaults, key, rules, object, <<>>))
        /\ UNCHANGED <<defaults, objects, calls, pure>>

resolveCollection(tid, a, own) ==
    LET collection == objects[tid].collection
        key == collection.attributes[a].name
        rules == collection.attributes[a].rules
        object == Parent("own", collection, key, collection.primaryKey, own, own)
    IN  /\ resolved.t = "none"
        /\ tid \in Resolvable
        /\ ~Has(rules, "model") /\ Has(rules, "collection")
        /\ resolved' = Run(tid, a, "own", own, own, object,
                           CollectionResolver(defaults, collection, rules, object, <<>>))
        /\ UNCHANGED <<defaults, objects, calls, pure>>

(***************************************************************************)
(* Literal trees of the query language (graphql/language Kind) and the     *)
(* native values GraphQLJson.parseLiteral makes of them.                   *)
(***************************************************************************)
Leaf(kind, value) == [kind |-> kind, value |-> value]
ListNode(values) == [kind |-> "ListValue", values |-> values]
ObjectNode(fields) == [kind |-> "ObjectValue", fields |-> fields]
FieldNode(name, value) == [name |-> [value |-> name], value |-> value]

Bool(b) == [t |-> "boolean", v |-> b]
Array(vs) == [t |-> "array", v |-> vs]
\* a plain object: its own keys in insertion order, as <<key, value>>
\* pairs, and its prototype
ObjectPrototype == [t |-> "Object.prototype"]
Ordered(kvs, proto) == [t |-> "mapping", v |-> kvs, proto |-> proto]

\* fields[name] = value on such an object.  `__proto__` is the accessor
\* inherited from Object.prototype: assigning an object or null replaces
\* the prototype, assigning anything else does nothing; no own key is made
Set(fields, name, value) ==
    IF name = "__proto__"
    THEN IF value.t \in {"mapping", "array", "null"}
         THEN [fields EXCEPT !.proto = value]
         ELSE fields
    ELSE IF \E i \in DOMAIN fields.v : fields.v[i][1] = name
    THEN [fields EXCEPT !.v = [i \in DOMAIN fields.v |->
                                  IF fields.v[i][1] = name THEN <<name, value>>
                                  ELSE fields.v[i]]]
    ELSE [fields EXCEPT !.v = Append(fields.v, <<name, value>>)]

\* GraphQLInt.parseLiteral and GraphQLFloat.parseLiteral on the numeric
\* texts of the model (parseInt(text, 10), parseFloat(text))
ParseNumber(text) ==
    CASE text = "7"   -> Num(7)
      [] text = "12"  -> Num(12)
      [] text = "3.0" -> Num(3)
      [] OTHER        -> null

(***************************************************************************)
(* internals.getParser(kind): the parser of a node kind, null for a kind   *)
(* it does not know.                                                       *)
(***************************************************************************)
getParser(kind) ==
    CASE kind = "IntValue"     -> "INT"
      [] kind = "FloatValue"   -> "FLOAT"
      [] kind = "BooleanValue" -> "BOOLEAN"
      [] kind = "StringValue"  -> "STRING"
      [] kind = "EnumValue"    -> "ENUM"
      [] kind = "ListValue"    -> "LIST"
      [] kind = "ObjectValue"  -> "OBJECT"
      [] OTHER                 -> "null"

RECURSIVE parseLiteral(_)
RECURSIVE ParseFields(_, _)

\* the reduce of the OBJECT parser (lines 264-267)
ParseFields(fields, nodes) ==
    IF nodes = <<>> THEN fields
    ELSE LET value == parseLiteral(Head(nodes).value)
         IN  IF value = TypeError THEN TypeError
             ELSE ParseFields(Set(fields, Head(nodes).name.value, value), Tail(nodes))

\* GraphQLJson.parseLiteral (lines 30-34): parser.call throws on null
parseLiteral(tree) ==
    LET parser == getParser(tree.kind)
    IN  CASE parser = "null"    -> TypeError
          [] parser = "INT"     -> ParseNumber(tree.value)
          [] parser = "FLOAT"   -> ParseNumber(tree.value)
          [] parser = "BOOLEAN" -> Bool(tree.value = "true")
          [] parser = "STRING"  -> Str(tree.value)
          [] parser = "ENUM"    -> Str(tree.value)
          [] parser = "LIST"    ->
                LET values == [i \in DOMAIN tree.values |-> parseLiteral(tree.values[i])]
                IN  IF \E i \in DOMAIN values : values[i] = TypeError
                    THEN TypeError ELSE Array(values)
          [] OTHER              -> ParseFields(Ordered(<<>>, ObjectPrototype), tree.fields)

\* the leaves of the model: one per supported kind, and two kinds
\* getParser does not know
Leaves ==
    { Leaf("IntValue", "7"), Leaf("FloatValue", "3.0"),
      Leaf("BooleanValue", "true"), Leaf("StringValue", "x"), Leaf("EnumValue", "ASC"),
      Leaf("Variable", "v"), Leaf("NullValue", "null") }

\* the field names of the object literals: any Name of the query language
FieldNames == {"a", "b", "__proto__"}

\* the attribute type tags of the model, and an attribute without one
TypeTags ==
    { Str(tag) : tag \in {"string", "String", "integer", "INTEGER", "boolean",
                          "Boolean", "float", "json", "JSON", "text", "date"} }
    \cup {undefined}

(***************************************************************************)
(* The pure functions applied to inputs of bounded size (SpecPure).  A     *)
(* literal is parsed as written; a deeper one is made by putting the last  *)
(* one into a list or an object, alone or beside a leaf.                   *)
(***************************************************************************)
Parsed(tree, depth) ==
    [t |-> "literal", tree |-> tree, depth |-> depth, value |-> parseLiteral(tree)]

parseLeaf(leaf) ==
    /\ pure' = Parsed(leaf, 0)
    /\ UNCHANGED <<defaults, objects, calls, resolved>>

parseList(values) ==
    /\ pure.t = "literal"
    /\ pure.depth < MaxDepth
    /\ pure' = Parsed(ListNode(values), pure.depth + 1)
    /\ UNCHANGED <<defaults, objects, calls, resolved>>

parseObject(fields) ==
    /\ pure.t = "literal"
    /\ pure.depth < MaxDepth
    /\ pure' = Parsed(ObjectNode(fields), pure.depth + 1)
    /\ UNCHANGED <<defaults, objects, calls, resolved>>

convertType(type) ==
    /\ pure' = [t |-> "type", type |-> type, value |-> convertToGraphQlType(type)]
    /\ UNCHANGED <<defaults, objects, calls, resolved>>

(***************************************************************************)
(* The module as loaded: internals.defaults (lines 18-23), no call made.   *)
(***************************************************************************)
Init ==
    /\ defaults = [collections |-> Collections("object", <<>>),
                   exposeQueryLanguage |-> FALSE,
                   modelQueries |-> <<>>,
                   types |-> <<>>]
    /\ objects = <<>>
    /\ calls = <<>>
    /\ resolved = [t |-> "none"]
    /\ pure = [t |-> "none"]

\* the config object of call i as the call left it: line 48 fills the
\* caller's own object with the keys of internals.defaults, and the two
\* registries are the shared objects
Reused(i) ==
    [collections |-> calls[i].config.collections,
     exposeQueryLanguage |-> calls[i].result.exposeQueryLanguage,
     modelQueries |-> defaults.modelQueries,
     types |-> defaults.types]

Next ==
    \/ \E config \in Configs : getGraphQlSchema(config)
    \/ \E i \in DOMAIN calls :
          /\ JoiValid(calls[i].config)
          /\ getGraphQlSchema(Reused(i))
    \/ \E tid \in DOMAIN objects, shape \in Shapes, foreign \in Ids :
          \E a \in DOMAIN objects[tid].collection.attributes :
              resolveModel(tid, a, shape, foreign)
    \/ \E tid \in DOMAIN objects, own \in Ids :
          \E a \in DOMAIN objects[tid].collection.attributes :
              resolveCollection(tid, a, own)

Spec == Init /\ [][Next]_vars

\* the leaves put beside a literal: one getParser knows, one it does not
Siblings == {Leaf("IntValue", "12"), Leaf("Variable", "v")}

\* the sequences that hold the literal e alone or beside one leaf
Around(e) ==
    {<<>>, <<e>>} \cup { <<l, e>> : l \in Siblings } \cup { <<e, l>> : l \in Siblings }

NextPure ==
    \/ \E leaf \in Leaves : parseLeaf(leaf)
    \/ /\ pure.t = "literal"
       /\ \E values \in Around(pure.tree) : parseList(values)
    \/ /\ pure.t = "literal"
       /\ \E values \in Around(pure.tree), n \in FieldNames :
          \E m \in FieldNames \ {n} :
             parseObject([i \in DOMAIN values |->
                            FieldNode(IF i = 1 THEN n ELSE m, values[i])])
    \/ \E type \in TypeTags : convertType(type)

SpecPure == Init /\ [][NextPure]_vars

(***************************************************************************)
(* The properties stated of the adapter, C1 to C10.                        *)
(***************************************************************************)
\* call number i returned a schema
Returned(i) == calls[i].result.threw = "none"

\* the names of the root query fields of the schema call i returned
RootNames(i) ==
    { calls[i].result.schema[q].name : q \in DOMAIN calls[i].result.schema }

\* the collections of a config
Items(config) ==
    IF Has(config, "collections")
    THEN { config.collections.items[k] : k \in DOMAIN config.collections.items }
    ELSE {}

\* the singular and plural field names of the collections of a config
OwnNames(config) ==
    UNION { {toLowerCase(c.identity), toLowerCase(c.identity) \o "s"} :
            c \in Items(config) }

\* the root fields of the schema of call i that call i itself built
BuiltBy(i) ==
    { f \in { calls[i].result.schema[q] : q \in DOMAIN calls[i].result.schema } :
        NamedObject(f.type)[2] = i }

\* C1: the root query object a call returns exposes exactly the singular
\* and the plural field of each collection of that call's own config, and
\* no field registered by an earlier call.
C1_RootFieldsOfOwnConfig ==
    \A i \in DOMAIN calls :
        Returned(i) => RootNames(i) = OwnNames(calls[i].config)

\* C1, the failing case: a call with collections of its own returns a root
\* object that also holds the fields an earlier call registered.
C1_EarlierFieldsReturned ==
    \E i \in DOMAIN calls :
        /\ Returned(i)
        /\ Items(calls[i].config) # {}
        /\ OwnNames(calls[i].config) \subseteq RootNames(i)
        /\ RootNames(i) # OwnNames(calls[i].config)

\* C2: a call whose config leaves exposeQueryLanguage out is built with
\* exposeQueryLanguage = false, whatever earlier calls were given: none of
\* the plural fields it builds has the raw-filter `where` argument.
C2_OmittedOptionIsFalse ==
    \A i \in DOMAIN calls :
        (Returned(i) /\ ~Has(calls[i].config, "exposeQueryLanguage")) =>
            \A f \in BuiltBy(i) :
                ~(Has(f.args, "where") /\ f.args["where"] = GraphQLJson)

\* C2, the failing case: a call that leaves the option out builds a plural
\* field with the raw-filter `where` argument.
C2_OptionPersisted ==
    \E i \in DOMAIN calls :
        /\ Returned(i)
        /\ ~Has(calls[i].config, "exposeQueryLanguage")
        /\ \E f \in BuiltBy(i) :
               Has(f.args, "where") /\ f.args["where"] = GraphQLJson

\* C3: for every collection, whatever its attributes are named, a plural
\* field built with exposeQueryLanguage false has no argument named `where`,
\* and one built with exposeQueryLanguage true has a `where` argument of
\* the raw-filter scalar type.
C3_WhereIffExposed ==
    \A i \in DOMAIN calls :
        Returned(i) =>
            \A f \in BuiltBy(i) :
                f.type.t = "list" =>
                    IF calls[i].result.exposeQueryLanguage
                    THEN Has(f.args, "where") /\ f.args["where"] = GraphQLJson
                    ELSE ~Has(f.args, "where")

\* C3, the failing case: built with exposeQueryLanguage false, the plural
\* field of a collection with an attribute named `where` has an argument
\* named `where`, of the attribute's type.
C3_WhereAttributeIsArgument ==
    \E i \in DOMAIN calls :
        /\ Returned(i)
        /\ ~calls[i].result.exposeQueryLanguage
        /\ \E f \in BuiltBy(i) :
               /\ f.type.t = "list"
               /\ Has(f.args, "where")
               /\ f.args["where"] = GraphQLString

\* C4: the resolver of a belongsTo attribute calls findOne of the
\* referenced collection D with criteria[D.primaryKey] equal to the foreign
\* identifier, whether the parent holds it as a nested record, flat under
\* D's primary-key name, or as the bare scalar.
C4_BelongsToFindsForeignId ==
    (/\ resolved.t = "resolved"
     /\ Has(resolved.rules, "model")
     /\ resolved.shape \in {"nested", "flat", "bare", "copied"}) =>
        LET D == Referenced(resolved.type, resolved.attr)
        IN  resolved.outcome =
                [t |-> "call", op |-> "findOne", collection |-> D.identity,
                 criteria |-> (D.primaryKey :> Num(resolved.foreign))]

\* C4, the failing case: the parent holds the bare foreign identifier and
\* its own primary key under the name of D's primary key; findOne is
\* called with the parent's own identifier.
C4_OwnIdentifierSent ==
    /\ resolved.t = "resolved"
    /\ Has(resolved.rules, "model")
    /\ resolved.shape = "bare"
    /\ resolved.foreign # resolved.own
    /\ resolved.outcome.t = "call"
    /\ resolved.outcome.criteria =
           (Referenced(resolved.type, resolved.attr).primaryKey :> Num(resolved.own))

\* C5: the resolver of a hasMany attribute `collection: C, via: f` hands
\* C.find a where-filter whose only constraint is f = the parent's
\* primary-key value, for every attribute name f.
C5_HasManyFiltersByVia ==
    (resolved.t = "resolved" /\ Has(resolved.rules, "collection")) =>
        resolved.outcome =
            [t |-> "call", op |-> "find",
             collection |-> Referenced(resolved.type, resolved.attr).identity,
             criteria |-> [where |-> Obj((resolved.rules.via :> Num(resolved.own)))]]

\* C5, the failing case: `via` has an upper-case letter and the filter
\* constrains the lower-cased name instead.
C5_ViaLowerCased ==
    /\ resolved.t = "resolved"
    /\ Has(resolved.rules, "collection")
    /\ toLowerCase(resolved.rules.via) # resolved.rules.via
    /\ resolved.outcome.t = "call"
    /\ resolved.outcome.criteria =
           [where |-> Obj((toLowerCase(resolved.rules.via) :> Num(resolved.own)))]

\* C6: a call whose config.collections is missing, an empty mapping or an
\* empty sequence returns no schema, on the first call and on any later one.
C6_EmptyCollectionsFail ==
    \A i \in DOMAIN calls :
        Items(calls[i].config) = {} => ~Returned(i)

\* C6, the failing case: a call with an empty collections returns a schema
\* built from the fields an earlier call left.
C6_EmptyCallReturnsSchema ==
    \E i \in DOMAIN calls :
        /\ Has(calls[i].config, "collections")
        /\ Items(calls[i].config) = {}
        /\ Returned(i)
        /\ RootNames(i) # {}

\* a relation of the config names a collection that is not in the config
Dangling(config) ==
    \E c \in Items(config) : \E a \in DOMAIN c.attributes :
        LET rules == c.attributes[a].rules
            known == { d.identity : d \in Items(config) }
        IN  \/ (Has(rules, "model") /\ rules.model \notin known)
            \/ (Has(rules, "collection") /\ rules.collection \notin known)

\* C7: a call one of whose `model` or `collection` references names a
\* collection that is not in that call's config.collections returns no
\* schema, also when an earlier call supplied the collection.
C7_UnknownReferenceFails ==
    \A i \in DOMAIN calls :
        Dangling(calls[i].config) => ~Returned(i)

\* C7, the failing case: a call whose config lacks a referenced collection
\* returns a schema, the reference wired to the type an earlier call built.
C7_DanglingCallReturnsSchema ==
    \E i \in DOMAIN calls :
        /\ Dangling(calls[i].config)
        /\ Returned(i)
        /\ \E f \in BuiltBy(i) : \E a \in DOMAIN objects[NamedObject(f.type)].fields :
               LET ty == objects[NamedObject(f.type)].fields[a].type
               IN  /\ ty.t \in {"object", "list"}
                   /\ NamedObject(ty)[2] < i

\* the names of the scalar (non relation) attributes of a collection that
\* are (id = TRUE) or are not (id = FALSE) primaryKey or unique
ScalarNames(c, id) ==
    { c.attributes[a].name : a \in
        { a \in DOMAIN c.attributes :
            LET rules == c.attributes[a].rules
            IN  /\ ~Has(rules, "model") /\ ~Has(rules, "collection")
                /\ id = (\/ (Has(rules, "primaryKey") /\ rules.primaryKey)
                         \/ (Has(rules, "unique") /\ rules.unique)) } }

\* C8: the singular field's arguments are exactly the scalar attributes
\* that are primaryKey or unique; the plural field's are exactly limit,
\* skip, sort (and where when enabled) and the other scalar attributes not
\* named like those; no relation attribute is an argument, and limit: Int,
\* skip: Int, sort: String keep their types.
C8_ArgumentPartition ==
    \A i \in DOMAIN calls :
        Returned(i) =>
            \A f \in BuiltBy(i) :
                LET c == f.resolve.collection
                    builtin == {"limit", "skip", "sort"} \cup
                               (IF calls[i].result.exposeQueryLanguage
                                THEN {"where"} ELSE {})
                IN  IF f.type.t = "object"
                    THEN DOMAIN f.args = ScalarNames(c, TRUE)
                    ELSE /\ DOMAIN f.args =
                              builtin \cup (ScalarNames(c, FALSE) \
                                            {"limit", "skip", "sort", "where"})
                         /\ f.args["limit"] = GraphQLInt
                         /\ f.args["skip"] = GraphQLInt
                         /\ f.args["sort"] = GraphQLString

\* C8, the failing case: a belongsTo attribute is an argument of the
\* plural field.
C8_RelationIsArgument ==
    \E i \in DOMAIN calls :
        /\ Returned(i)
        /\ \E f \in BuiltBy(i) :
               LET c == f.resolve.collection
               IN  /\ f.type.t = "list"
                   /\ \E a \in DOMAIN c.attributes :
                          /\ Has(c.attributes[a].rules, "model")
                          /\ Has(f.args, c.attributes[a].name)

\* the scalar the specification gives a type tag: the five tags matched
\* without regard to case, the String scalar for any other or no tag
toScalar(type) ==
    LET tag == IF type.t = "string" THEN toLowerCase(type.v) ELSE "" 
    IN  CASE tag = "integer" -> GraphQLInt
          [] tag = "boolean" -> GraphQLBoolean
          [] tag = "float"   -> GraphQLFloat
          [] tag = "json"    -> GraphQLJson
          [] OTHER           -> GraphQLString

\* C9: convertToGraphQlType is total: it returns the scalar of the tag,
\* and the String scalar for every unrecognized tag and for an absent one,
\* never raising an error.
C9_ConvertIsTotal ==
    pure.t = "type" => pure.value = toScalar(pure.type)

\* C9, the failing case: the attribute has no type tag and the conversion
\* raises a TypeError.
C9_AbsentTagThrows ==
    /\ pure.t = "type"
    /\ pure.type = undefined
    /\ pure.value = TypeError

\* every node of the tree has one of the seven kinds
RECURSIVE Supported(_)
Supported(tree) ==
    CASE tree.kind = "ListValue" ->
            \A k \in DOMAIN tree.values : Supported(tree.values[k])
      [] tree.kind = "ObjectValue" ->
            \A k \in DOMAIN tree.fields : Supported(tree.fields[k].value)
      [] OTHER -> tree.kind \in {"IntValue", "FloatValue", "BooleanValue",
                                 "StringValue", "EnumValue"}

\* the native value that mirrors a tree of supported nodes
RECURSIVE Mirror(_)
Mirror(tree) ==
    CASE tree.kind = "ListValue" ->
            Array([k \in DOMAIN tree.values |-> Mirror(tree.values[k])])
      [] tree.kind = "ObjectValue" ->
            Ordered([k \in DOMAIN tree.fields |->
                        <<tree.fields[k].name.value, Mirror(tree.fields[k].value)>>],
                    ObjectPrototype)
      [] tree.kind \in {"IntValue", "FloatValue"} -> ParseNumber(tree.value)
      [] tree.kind = "BooleanValue" -> Bool(tree.value = "true")
      [] OTHER -> Str(tree.value)

\* C10: parseLiteral returns the native value mirroring the tree (a list
\* as the sequence of its parsed elements, an object as the mapping from
\* each field name to its parsed value in syntactic order) when every node
\* has one of the seven kinds, and fails exactly when some node has not.
C10_ParseLiteralMirrors ==
    pure.t = "literal" =>
        IF Supported(pure.tree) THEN pure.value = Mirror(pure.tree)
        ELSE pure.value = TypeError

\* C10, the failing case: an object literal of supported nodes has a field
\* named __proto__ and the mapping returned has no such key.
C10_ProtoFieldDropped ==
    /\ pure.t = "literal"
    /\ pure.tree.kind = "ObjectValue"
    /\ Supported(pure.tree)
    /\ \E k \in DOMAIN pure.tree.fields : pure.tree.fields[k].name.value = "__proto__"
    /\ pure.value.t = "mapping"
    /\ \A j \in DOMAIN pure.value.v : pure.value.v[j][1] # "__proto__"

\* the relation an attribute declares: the identity it references and the
\* name of the query field its resolver delegates to; <<>> for a scalar
Relation(rules) ==
    IF Has(rules, "model")
    THEN <<rules.model, toLowerCase(rules.model)>>
    ELSE IF Has(rules, "collection")
    THEN <<rules.collection, toLowerCase(rules.collection) \o "s">>
    ELSE <<>>

\* C11: within one getGraphQlSchema call every buildType call is made
\* before the first buildQueryFields call; whenever a query field is built
\* the type registry holds an entry for every collection of the config and
\* the field's declared type is the type the call built; and when the
\* build returns, for every ordering of the collections, every relation
\* field naming a collection of the config has that collection's type and
\* finds that collection's query field in the registry.
C11_TypesBeforeQueryFields ==
    \A i \in DOMAIN calls :
        LET log == calls[i].result.log
            config == calls[i].config
            known == { c.identity : c \in Items(config) }
        IN  /\ \A j \in DOMAIN log : \A k \in DOMAIN log :
                   (log[j].op = "buildType" /\ log[k].op = "buildQueryFields")
                       => j < k
            /\ \A k \in DOMAIN log :
                   log[k].op = "buildQueryFields" =>
                       /\ { capitalize(id) : id \in known } \subseteq log[k].types
                       /\ log[k].type = ObjectType(<<capitalize(log[k].identity), i>>)
            /\ Returned(i) =>
                   \A c \in Items(config) : \A a \in DOMAIN c.attributes :
                       LET relation == Relation(c.attributes[a].rules)
                           field == objects[<<capitalize(c.identity), i>>].fields[a]
                           query == Query(calls[i].result.schema, relation[2])
                       IN  (relation # <<>> /\ relation[1] \in known) =>
                               /\ NamedObject(field.type) = <<capitalize(relation[1]), i>>
                               /\ query # undefined
                               /\ query.v.resolve.collection.identity = relation[1]

\* C11, its case: a call returned whose config declares a collection
\* before the collection it references, both passes having run over it.
C11_ForwardReferenceBuilt ==
    \E i \in DOMAIN calls :
        LET items == calls[i].config.collections.items
        IN  /\ Returned(i)
            /\ Len(calls[i].result.log) = 2 * Len(items)
            /\ \E j \in DOMAIN items : \E k \in DOMAIN items :
                   /\ j < k
                   /\ \E a \in DOMAIN items[j].attributes :
                          Relation(items[j].attributes[a].rules) # <<>>
                          /\ Relation(items[j].attributes[a].rules)[1] = items[k].identity

\* internals.defaults as the call that built type object tid left it: the
\* collections of that call's config and the query fields it returned
OwnBuild(tid) ==
    [collections |-> calls[tid[2]].config.collections,
     modelQueries |-> calls[tid[2]].result.schema]

\* what the relation resolver run recorded in `resolved` does when it reads
\* the registries d
Against(d) ==
    IF Has(resolved.rules, "model")
    THEN ModelResolver(d, resolved.key, resolved.rules, resolved.object, <<>>)
    ELSE CollectionResolver(d, objects[resolved.type].collection, resolved.rules,
                            resolved.object, <<>>)

\* the run recorded in `resolved` is of a resolver of a schema some call
\* returned, for a relation to a collection of that call's own config
OfReturnedSchema ==
    /\ resolved.t = "resolved"
    /\ Returned(resolved.type[2])
    /\ Relation(resolved.rules)[1] \in
           { c.identity : c \in Items(calls[resolved.type[2]].config) }

\* C12: a relation resolver of a schema an earlier call returned, run after
\* any later getGraphQlSchema calls, does what it does against its own
\* build: it reads the primary key of, and delegates to the query field
\* of, the collection referenced in its own call's config, and does not
\* fail because a later call replaced the shared config.
C12_ResolvesAgainstOwnBuild ==
    OfReturnedSchema => resolved.outcome = Against(OwnBuild(resolved.type))

\* C12, the failing case: a later call was made with other collections and
\* the resolver, handed a nested record it resolves against its own build,
\* raises a TypeError.
C12_LaterCallBreaksResolver ==
    /\ OfReturnedSchema
    /\ resolved.type[2] < Len(calls)
    /\ Returned(Len(calls))
    /\ resolved.shape = "nested"
    /\ Against(OwnBuild(resolved.type)).t = "call"
    /\ resolved.outcome = TypeError

=============================================================================
